---- MODULE Spec2Model ----
(***************************************************************************)
(* Model of the Korean map page                                            *)
(*   src/web/src/routes/(user)/map/korean/[[photos=photos]]/               *)
(*       [[assetId=id]]/+page.svelte                                       *)
(* The page runs on one UI event loop: a task (a DOM event, a network      *)
(* completion, a mount) runs to its end, then the queued promise           *)
(* continuations (microtasks) run, then the next task starts.              *)
(*                                                                         *)
(* Three parts of the page are modelled, each with a specification of its  *)
(* own over the same variables:                                            *)
(*   LoaderSpec  appendScriptOnce / loadNaverStack (script bootstrap)      *)
(*   FetchSpec   getFileCreatedDates / loadMapMarkers (marker fetch)       *)
(*   ViewerSpec  onViewAssets / navigateNext / navigatePrevious / onClose  *)
(*               and the marker and cluster click listeners                *)
(* A fourth specification follows one component instance through onMount,  *)
(* unmount and the cleanup function onMount returns:                       *)
(*   LifecycleSpec  onMount (lines 134-288) over the three parts above     *)
(***************************************************************************)
EXTENDS Integers, Sequences, FiniteSets, TLC

VARIABLES
    \* ---- script bootstrap ----
    scripts,        \* document.scripts: sequence of script elements
    ready,          \* per src: the global the script defines exists
    promise,        \* per mount and src: state of the appendScriptOnce promise
    how,            \* per mount and src: the branch appendScriptOnce took
    settled,        \* per mount and src: number of resolve/reject callbacks run
    pc,             \* per mount: position of onMount / loadNaverStack
    microtasks,     \* queued promise continuations (mounts to resume)
    \* ---- marker fetch ----
    mapSettings,    \* $mapSettings, the persisted preference store
    abortController,\* line 19: 0 (null) or the index of the current fetch
    fetches,        \* the getMapMarkers requests issued so far
    applied,        \* the fetch whose result the caller last took (line 143)
    \* ---- asset viewer ----
    viewingAssets,      \* line 105
    viewingAssetCursor, \* line 106
    viewingAsset,       \* $viewingAsset.id, the asset the store holds
    showAssetViewer,    \* $showAssetViewer (isViewing): the viewer is rendered
    navAssetId,         \* the assetId last passed to navigate()
    calls,              \* the viewer calls made so far, with their progress
    \* ---- lifecycle of the component instance ----
    unmountedAt,    \* "never", or pc of the instance when it was destroyed
    map,            \* line 146: "none" or "constructed"
    markers,        \* line 161: the naver.maps.Marker objects, with their map
    mc,             \* line 223: the clusterer: "none", "onMap" or "offMap"
    listeners,      \* the listeners registered with naver.maps.Event
    teardownLog,    \* the state each run of the cleanup function left
    clicks          \* click events dispatched on cluster markers

loaderVars == <<scripts, ready, promise, how, settled, pc, microtasks>>
fetchVars == <<mapSettings, abortController, fetches, applied>>

viewerVars == <<viewingAssets, viewingAssetCursor, viewingAsset,
                showAssetViewer, navAssetId, calls>>

lifeVars == <<unmountedAt, map, markers, mc, listeners, teardownLog, clicks>>

vars == <<scripts, ready, promise, how, settled, pc, microtasks,
          mapSettings, abortController, fetches, applied,
          viewingAssets, viewingAssetCursor, viewingAsset,
          showAssetViewer, navAssetId, calls,
          unmountedAt, map, markers, mc, listeners, teardownLog, clicks>>

(***************************************************************************)
(* Bounds                                                                  *)
(***************************************************************************)
NumMounts == 3      \* component instances (mount, remount, ...)
MaxFetches == 3     \* loadMapMarkers calls
MaxCalls == 4       \* viewer calls (open, next, previous, close)
MaxTeardowns == 2   \* runs of the cleanup function
MaxStylings == 2    \* stylingFunction invocations on one cluster marker

Mounts == 1..NumMounts

(***************************************************************************)
(* Script bootstrap                                                        *)
(***************************************************************************)
MapsUrl    == "maps.js"              \* line 56
ClusterUrl == "/MarkerClustering.js" \* line 60
Srcs == {MapsUrl, ClusterUrl}

\* Array.from(document.scripts).find((s) => s.src === src): the index of the
\* first element with that src, 0 when there is none.
Existing(src) ==
    LET hits == {i \in DOMAIN scripts : scripts[i].src = src}
    IN  IF hits = {} THEN 0 ELSE CHOOSE i \in hits : \A j \in hits : i <= j

\* new Promise executor of appendScriptOnce, called by mount m; queue is the
\* microtask queue the call runs on top of.
AppendScriptOnceNoLookup(m, src, queue) ==
    IF ready[src]
    THEN /\ promise' = [promise EXCEPT ![m][src] = "resolved"]
         /\ settled' = [settled EXCEPT ![m][src] = @ + 1]
         /\ how' = [how EXCEPT ![m][src] = "ready"]
         /\ microtasks' = Append(queue, m)
         /\ UNCHANGED scripts
    ELSE /\ scripts' = Append(scripts,
                [src |-> src, status |-> "loading", listeners |-> <<m>>])
         /\ promise' = [promise EXCEPT ![m][src] = "pending"]
         /\ how' = [how EXCEPT ![m][src] = "inserted"]
         /\ microtasks' = queue
         /\ UNCHANGED settled

AppendScriptOnce(m, src, queue) ==
    IF ready[src]
    THEN \* line 35: resolve at once; the awaiting caller resumes in a microtask
         /\ promise' = [promise EXCEPT ![m][src] = "resolved"]
         /\ settled' = [settled EXCEPT ![m][src] = @ + 1]
         /\ how' = [how EXCEPT ![m][src] = "ready"]
         /\ microtasks' = Append(queue, m)
         /\ UNCHANGED scripts
    ELSE IF Existing(src) # 0
    THEN \* lines 37-42: listen on the element already in the document
         /\ scripts' = [scripts EXCEPT
                ![Existing(src)].listeners = Append(@, m)]
         /\ promise' = [promise EXCEPT ![m][src] = "pending"]
         /\ how' = [how EXCEPT ![m][src] = "attached"]
         /\ microtasks' = queue
         /\ UNCHANGED settled
    ELSE \* lines 44-50: insert a new element
         /\ scripts' = Append(scripts,
                [src |-> src, status |-> "loading", listeners |-> <<m>>])
         /\ promise' = [promise EXCEPT ![m][src] = "pending"]
         /\ how' = [how EXCEPT ![m][src] = "inserted"]
         /\ microtasks' = queue
         /\ UNCHANGED settled

\* The listeners of element i, as a set of mounts.
ListenersOf(i) == {scripts[i].listeners[k] : k \in DOMAIN scripts[i].listeners}

\* Running the callbacks of the mounts in ms for src: a promise settles on the
\* first callback only; every callback run is counted.
Settle(ms, src, outcome) ==
    /\ promise' = [m \in Mounts |-> [s \in Srcs |->
            IF m \in ms /\ s = src /\ promise[m][s] = "pending"
            THEN outcome ELSE promise[m][s]]]
    /\ settled' = [m \in Mounts |-> [s \in Srcs |->
            IF m \in ms /\ s = src THEN settled[m][s] + 1 ELSE settled[m][s]]]

\* The browser ran the script and fires 'load' on element i: the script has
\* defined its global; the {once: true} listeners and onload run and are gone.
ScriptLoad(i) ==
    /\ microtasks = <<>>
    /\ scripts[i].status = "loading"
    /\ ready' = [ready EXCEPT ![scripts[i].src] = TRUE]
    /\ scripts' = [scripts EXCEPT ![i].status = "loaded", ![i].listeners = <<>>]
    /\ Settle(ListenersOf(i), scripts[i].src, "resolved")
    /\ microtasks' = scripts[i].listeners
    /\ UNCHANGED <<how, pc>>
    /\ UNCHANGED <<fetchVars, viewerVars, lifeVars>>

\* The browser fires 'error' on element i; the element stays in the document.
ScriptError(i) ==
    /\ microtasks = <<>>
    /\ scripts[i].status = "loading"
    /\ scripts' = [scripts EXCEPT ![i].status = "error", ![i].listeners = <<>>]
    /\ Settle(ListenersOf(i), scripts[i].src, "rejected")
    /\ microtasks' = scripts[i].listeners
    /\ UNCHANGED <<ready, how, pc>>
    /\ UNCHANGED <<fetchVars, viewerVars, lifeVars>>

\* onMount line 137 -> loadNaverStack line 57: the first load is requested in
\* the task that mounts the component.
Mount(m) ==
    /\ microtasks = <<>>
    /\ pc[m] = "unmounted"
    /\ AppendScriptOnce(m, MapsUrl, microtasks)
    /\ pc' = [pc EXCEPT ![m] = "awaitMaps"]
    /\ UNCHANGED ready
    /\ UNCHANGED <<fetchVars, viewerVars, lifeVars>>

\* A continuation that goes on whatever the awaited promise's outcome.
LoadNaverStackResumeAlways(m) ==
    \/ /\ pc[m] = "awaitMaps"
       /\ AppendScriptOnce(m, ClusterUrl, Tail(microtasks))
       /\ pc' = [pc EXCEPT ![m] = "awaitCluster"]
       /\ UNCHANGED ready
    \/ /\ pc[m] = "awaitCluster"
       /\ pc' = [pc EXCEPT ![m] = "stackLoaded"]
       /\ microtasks' = Tail(microtasks)
       /\ UNCHANGED <<scripts, ready, promise, how, settled>>

\* loadNaverStack resumed after an await (lines 57, 60); a rejection leaves
\* loadNaverStack and is caught by onMount's catch (line 285).
LoadNaverStackResume(m) ==
    \/ /\ pc[m] = "awaitMaps"
       /\ promise[m][MapsUrl] = "resolved"
       /\ AppendScriptOnce(m, ClusterUrl, Tail(microtasks))
       /\ pc' = [pc EXCEPT ![m] = "awaitCluster"]
       /\ UNCHANGED ready
    \/ /\ pc[m] = "awaitMaps"
       /\ promise[m][MapsUrl] = "rejected"
       /\ pc' = [pc EXCEPT ![m] = "stackFailed"]
       /\ microtasks' = Tail(microtasks)
       /\ UNCHANGED <<scripts, ready, promise, how, settled>>
    \/ /\ pc[m] = "awaitCluster"
       /\ promise[m][ClusterUrl] = "resolved"
       /\ pc' = [pc EXCEPT ![m] = "stackLoaded"]
       /\ microtasks' = Tail(microtasks)
       /\ UNCHANGED <<scripts, ready, promise, how, settled>>
    \/ /\ pc[m] = "awaitCluster"
       /\ promise[m][ClusterUrl] = "rejected"
       /\ pc' = [pc EXCEPT ![m] = "stackFailed"]
       /\ microtasks' = Tail(microtasks)
       /\ UNCHANGED <<scripts, ready, promise, how, settled>>

\* The event loop runs the oldest queued continuation.
RunMicrotask ==
    /\ microtasks # <<>>
    /\ LoadNaverStackResume(Head(microtasks))
    /\ UNCHANGED <<fetchVars, viewerVars, lifeVars>>

(***************************************************************************)
(* Marker fetch                                                            *)
(***************************************************************************)
Undefined == "undefined"
NaN == -1

\* The stored strings the model draws $mapSettings from.
RelativeDates == {"", "P1D", "junk"}
DatesAfter    == {"", "2024-01-01", "not-a-date"}
DatesBefore   == {"", "2024-01-03", "not-a-date"}
\* DateTime.now(), as a day number.
Nows == {4, 5}

\* luxon Duration.fromISO: the duration in days, invalid for other text.
DurationFromISO(text) ==
    IF text = "P1D" THEN [isValid |-> TRUE, days |-> 1]
    ELSE [isValid |-> FALSE, days |-> 0]

\* new Date(text): the time value as a day number, NaN for text that is no date.
NewDate(text) ==
    CASE text = "2024-01-01" -> 1
      [] text = "2024-01-03" -> 3
      [] OTHER -> NaN

\* Date.prototype.toISOString / luxon toISO of a valid time value.
ToISO(t) ==
    CASE t = 1 -> "2024-01-01T00:00:00.000Z"
      [] t = 2 -> "2024-01-02T00:00:00.000Z"
      [] t = 3 -> "2024-01-03T00:00:00.000Z"
      [] t = 4 -> "2024-01-04T00:00:00.000Z"
      [] t = 5 -> "2024-01-05T00:00:00.000Z"
      [] OTHER -> "2024-01-06T00:00:00.000Z"

\* The absolute pair read although a relative duration is stored.
GetFileCreatedDatesAbsoluteToo(st, now) ==
    IF st.relativeDate # ""
    THEN LET duration == DurationFromISO(st.relativeDate)
         IN  [fileCreatedAfter |-> IF duration.isValid
                                   THEN ToISO(now - duration.days)
                                   ELSE Undefined,
              fileCreatedBefore |-> IF st.dateBefore # "" /\ NewDate(st.dateBefore) # NaN
                                    THEN ToISO(NewDate(st.dateBefore))
                                    ELSE Undefined,
              settings |-> st]
    ELSE IF \/ (st.dateAfter # "" /\ NewDate(st.dateAfter) = NaN)
            \/ (st.dateBefore # "" /\ NewDate(st.dateBefore) = NaN)
    THEN [fileCreatedAfter |-> Undefined,
          fileCreatedBefore |-> Undefined,
          settings |-> [st EXCEPT !.dateAfter = "", !.dateBefore = ""]]
    ELSE [fileCreatedAfter |-> IF st.dateAfter # ""
                               THEN ToISO(NewDate(st.dateAfter)) ELSE Undefined,
          fileCreatedBefore |-> IF st.dateBefore # ""
                                THEN ToISO(NewDate(st.dateBefore)) ELSE Undefined,
          settings |-> st]

\* Only the field that failed to parse cleared, the other kept and sent.
GetFileCreatedDatesClearOffending(st, now) ==
    IF st.relativeDate # ""
    THEN LET duration == DurationFromISO(st.relativeDate)
         IN  [fileCreatedAfter |-> IF duration.isValid
                                   THEN ToISO(now - duration.days)
                                   ELSE Undefined,
              fileCreatedBefore |-> Undefined,
              settings |-> st]
    ELSE LET badAfter == st.dateAfter # "" /\ NewDate(st.dateAfter) = NaN
             badBefore == st.dateBefore # "" /\ NewDate(st.dateBefore) = NaN
         IN  [fileCreatedAfter |-> IF st.dateAfter # "" /\ ~badAfter
                                   THEN ToISO(NewDate(st.dateAfter)) ELSE Undefined,
              fileCreatedBefore |-> IF st.dateBefore # "" /\ ~badBefore
                                    THEN ToISO(NewDate(st.dateBefore)) ELSE Undefined,
              settings |-> [st EXCEPT !.dateAfter = IF badAfter THEN "" ELSE @,
                                      !.dateBefore = IF badBefore THEN "" ELSE @]]

\* getFileCreatedDates: the dates of the filter and the store it leaves.
GetFileCreatedDates(st, now) ==
    IF st.relativeDate # ""
    THEN \* lines 66-71
         LET duration == DurationFromISO(st.relativeDate)
         IN  [fileCreatedAfter |-> IF duration.isValid
                                   THEN ToISO(now - duration.days)
                                   ELSE Undefined,
              fileCreatedBefore |-> Undefined,
              settings |-> st]
    ELSE IF \/ (st.dateAfter # "" /\ NewDate(st.dateAfter) = NaN)
            \/ (st.dateBefore # "" /\ NewDate(st.dateBefore) = NaN)
    THEN \* lines 78-82: toISOString threw a RangeError
         [fileCreatedAfter |-> Undefined,
          fileCreatedBefore |-> Undefined,
          settings |-> [st EXCEPT !.dateAfter = "", !.dateBefore = ""]]
    ELSE \* lines 74-77
         [fileCreatedAfter |-> IF st.dateAfter # ""
                               THEN ToISO(NewDate(st.dateAfter)) ELSE Undefined,
          fileCreatedBefore |-> IF st.dateBefore # ""
                                THEN ToISO(NewDate(st.dateBefore)) ELSE Undefined,
          settings |-> st]

\* flag || undefined, for a boolean preference
OrUndefined(flag) == IF flag THEN "true" ELSE Undefined

\* A superseded request left alone.
AbortPreviousSkipped(fs, ctl) == fs

\* line 86: if (abortController) abortController.abort(): the signal of the
\* current controller is aborted, and a request still in flight on it rejects
\* with an AbortError.
AbortPrevious(fs, ctl) ==
    IF ctl = 0 THEN fs
    ELSE [fs EXCEPT ![ctl] =
            IF @.status = "inflight"
            THEN [@ EXCEPT !.signalAborted = TRUE,
                           !.status = "rejected", !.error = "AbortError"]
            ELSE [@ EXCEPT !.signalAborted = TRUE]]

\* loadMapMarkers, lines 85-103.  Beside the request, the record keeps the
\* clock and the stored settings the call read.
LoadMapMarkersCall(now) ==
    /\ Len(fetches) < MaxFetches
    /\ LET dates == GetFileCreatedDates(mapSettings, now)
           request ==
             [filter |->
                [isArchived |-> OrUndefined(mapSettings.includeArchived),
                 isFavorite |-> OrUndefined(mapSettings.onlyFavorites),
                 fileCreatedAfter |-> IF dates.fileCreatedAfter = ""
                                      THEN Undefined
                                      ELSE dates.fileCreatedAfter,
                 fileCreatedBefore |-> dates.fileCreatedBefore,
                 withPartners |-> OrUndefined(mapSettings.withPartners),
                 withSharedAlbums |-> OrUndefined(mapSettings.withSharedAlbums)],
              now |-> now,
              settings |-> mapSettings,
              status |-> "inflight",
              error |-> "none",
              signalAborted |-> FALSE]
       IN  /\ fetches' = Append(AbortPrevious(fetches, abortController), request)
           /\ abortController' = Len(fetches) + 1
           /\ mapSettings' = dates.settings
    /\ UNCHANGED applied

\* loadMapMarkers called on its own.
LoadMapMarkers(now) ==
    /\ LoadMapMarkersCall(now)
    /\ UNCHANGED <<loaderVars, viewerVars, lifeVars>>

\* The server answers request i; the awaiting caller takes the marker list
\* (line 143).
FetchResolve(i) ==
    /\ fetches[i].status = "inflight"
    /\ fetches' = [fetches EXCEPT ![i].status = "resolved"]
    /\ applied' = [fetch |-> i, issued |-> Len(fetches)]
    /\ UNCHANGED <<mapSettings, abortController>>
    /\ UNCHANGED <<loaderVars, viewerVars, lifeVars>>

\* Request i fails on the network or the server; the caller's await throws.
FetchFail(i) ==
    /\ fetches[i].status = "inflight"
    /\ fetches' = [fetches EXCEPT ![i].status = "rejected",
                                  ![i].error = "NetworkError"]
    /\ UNCHANGED <<mapSettings, abortController, applied>>
    /\ UNCHANGED <<loaderVars, viewerVars, lifeVars>>

(***************************************************************************)
(* Asset viewer                                                            *)
(***************************************************************************)
Null == "null"

\* The markers built from the fetched list (lines 161-196); m.set('id', o.id)
\* stores the asset id on the marker.
Marker(id, lat, lon) == [id |-> id, lat |-> lat, lon |-> lon]
MarkerA == Marker("a", 37, 127)
MarkerB == Marker("b", 37, 127)
MarkerC == Marker("c", 37, 127)
Markers == <<MarkerA, MarkerB, MarkerC>>

\* minClusterSize, line 226
MinClusterSize == 2

\* The groupings of Markers the clusterer makes at the two zoom levels of the
\* model, each group in the order of Markers: all three together, and the
\* first apart from the other two.
Partitions ==
    { << <<MarkerA, MarkerB, MarkerC>> >>,
      << <<MarkerA>>, <<MarkerB, MarkerC>> >> }
Groups == UNION {{part[i] : i \in DOMAIN part} : part \in Partitions}

\* cluster._clusterMember of the cluster markers shown: the groups that reach
\* minClusterSize.  The markers of smaller groups are on the map themselves.
ClusterMembers == {g \in Groups : Len(g) >= MinClusterSize}
SingleMarkers == {g[1] : g \in {h \in Groups : Len(h) < MinClusterSize}}

\* The program state a call starts from.
Snapshot ==
    [assets |-> viewingAssets, cursor |-> viewingAssetCursor,
     asset |-> viewingAsset, shown |-> showAssetViewer, nav |-> navAssetId]

Settled(c) == c.pc \in {"done", "failed"}

\* A call record: what was called, where it stands, and what it started from.
Call(op, ids, arg, stage, ret, click) ==
    [op |-> op, ids |-> ids, arg |-> arg, pc |-> stage, ret |-> ret,
     click |-> click,
     alone |-> \A j \in DOMAIN calls : Settled(calls[j]),
     before |-> Snapshot]

NoClick == [kind |-> "none", members |-> <<>>]

\* A cluster click that opens the first member only.
ClusterIdsFirstOnly(members) == <<members[1].id>>

\* line 243: _clusterMember.map(o => o.id)
ClusterIds(members) == [i \in 1..Len(members) |-> members[i].id]

\* An open that replaces the list and leaves the cursor where it was.
OnViewAssetsKeepCursor(assetIds, click) ==
    /\ Len(calls) < MaxCalls
    /\ viewingAssets' = assetIds
    /\ calls' = Append(calls,
            Call("open", assetIds, assetIds[1], "setAssetId", "pending", click))
    /\ UNCHANGED <<viewingAssetCursor, viewingAsset, showAssetViewer, navAssetId>>

\* onViewAssets up to its await, lines 108-111.
OnViewAssets(assetIds, click) ==
    /\ Len(calls) < MaxCalls
    /\ viewingAssets' = assetIds
    /\ viewingAssetCursor' = 0
    /\ calls' = Append(calls,
            Call("open", assetIds, assetIds[1], "setAssetId", "pending", click))
    /\ UNCHANGED <<viewingAsset, showAssetViewer, navAssetId>>

\* The click listener of a cluster marker, lines 242-245.
ClickCluster(members) ==
    /\ OnViewAssets(ClusterIds(members),
                    [kind |-> "cluster", members |-> members])
    /\ UNCHANGED <<loaderVars, fetchVars, lifeVars>>

\* The click listener of a marker, lines 273-277.
ClickMarker(m) ==
    /\ OnViewAssets(<<m.id>>, [kind |-> "marker", members |-> <<m>>])
    /\ UNCHANGED <<loaderVars, fetchVars, lifeVars>>

\* A next() that also steps from the last asset.
NavigateNextOffByOne ==
    /\ showAssetViewer
    /\ Len(calls) < MaxCalls
    /\ IF viewingAssetCursor < Len(viewingAssets)
       THEN /\ viewingAssetCursor' = viewingAssetCursor + 1
            /\ calls' = Append(calls,
                   Call("next", <<>>,
                        IF viewingAssetCursor + 1 < Len(viewingAssets)
                        THEN viewingAssets[viewingAssetCursor + 2]
                        ELSE Undefined,
                        "setAssetId", "pending", NoClick))
       ELSE /\ calls' = Append(calls,
                   Call("next", <<>>, Undefined, "done", "false", NoClick))
            /\ UNCHANGED viewingAssetCursor
    /\ UNCHANGED <<viewingAssets, viewingAsset, showAssetViewer, navAssetId>>
    /\ UNCHANGED <<loaderVars, fetchVars, lifeVars>>

\* navigateNext up to its first await, lines 116-118 and 122.  The viewer
\* calls it (onNext, line 302), so only while it is rendered (line 297).
\* viewingAssets is indexed from 0 in the source and from 1 here.
NavigateNext ==
    /\ showAssetViewer
    /\ Len(calls) < MaxCalls
    /\ IF viewingAssetCursor < Len(viewingAssets) - 1
       THEN /\ viewingAssetCursor' = viewingAssetCursor + 1
            /\ calls' = Append(calls,
                   Call("next", <<>>, viewingAssets[viewingAssetCursor + 2],
                        "setAssetId", "pending", NoClick))
       ELSE /\ calls' = Append(calls,
                   Call("next", <<>>, Undefined, "done", "false", NoClick))
            /\ UNCHANGED viewingAssetCursor
    /\ UNCHANGED <<viewingAssets, viewingAsset, showAssetViewer, navAssetId>>
    /\ UNCHANGED <<loaderVars, fetchVars, lifeVars>>

\* A previous() that also steps from the first asset.
NavigatePreviousOffByOne ==
    /\ showAssetViewer
    /\ Len(calls) < MaxCalls
    /\ IF viewingAssetCursor >= 0
       THEN /\ viewingAssetCursor' = viewingAssetCursor - 1
            /\ calls' = Append(calls,
                   Call("previous", <<>>,
                        IF viewingAssetCursor > 0
                        THEN viewingAssets[viewingAssetCursor]
                        ELSE Undefined,
                        "setAssetId", "pending", NoClick))
       ELSE /\ calls' = Append(calls,
                   Call("previous", <<>>, Undefined, "done", "false", NoClick))
            /\ UNCHANGED viewingAssetCursor
    /\ UNCHANGED <<viewingAssets, viewingAsset, showAssetViewer, navAssetId>>
    /\ UNCHANGED <<loaderVars, fetchVars, lifeVars>>

\* navigatePrevious up to its first await, lines 125-127 and 131.
NavigatePrevious ==
    /\ showAssetViewer
    /\ Len(calls) < MaxCalls
    /\ IF viewingAssetCursor > 0
       THEN /\ viewingAssetCursor' = viewingAssetCursor - 1
            /\ calls' = Append(calls,
                   Call("previous", <<>>, viewingAssets[viewingAssetCursor],
                        "setAssetId", "pending", NoClick))
       ELSE /\ calls' = Append(calls,
                   Call("previous", <<>>, Undefined, "done", "false", NoClick))
            /\ UNCHANGED viewingAssetCursor
    /\ UNCHANGED <<viewingAssets, viewingAsset, showAssetViewer, navAssetId>>
    /\ UNCHANGED <<loaderVars, fetchVars, lifeVars>>

\* assetViewingStore.setAssetId(id) fulfils: the store holds the asset and
\* shows the viewer.
SetAssetId(id) ==
    /\ viewingAsset' = id
    /\ showAssetViewer' = TRUE

\* The setAssetId a call awaits fulfils and the call goes on: onViewAssets
\* returns (line 112); navigateNext / navigatePrevious call navigate with
\* $viewingAsset.id (lines 119, 128).
SetAssetIdResolve(k) ==
    /\ calls[k].pc = "setAssetId"
    /\ SetAssetId(calls[k].arg)
    /\ IF calls[k].op = "open"
       THEN /\ calls' = [calls EXCEPT ![k].pc = "done", ![k].ret = "void"]
            /\ UNCHANGED navAssetId
       ELSE /\ navAssetId' = viewingAsset'
            /\ calls' = [calls EXCEPT ![k].pc = "navigate"]
    /\ UNCHANGED <<viewingAssets, viewingAssetCursor>>
    /\ UNCHANGED <<loaderVars, fetchVars, lifeVars>>

\* The setAssetId a call awaits rejects: the call throws at its await.
SetAssetIdReject(k) ==
    /\ calls[k].pc = "setAssetId"
    /\ calls' = [calls EXCEPT ![k].pc = "failed", ![k].ret = "threw"]
    /\ UNCHANGED <<viewingAssets, viewingAssetCursor, viewingAsset,
                   showAssetViewer, navAssetId>>
    /\ UNCHANGED <<loaderVars, fetchVars, lifeVars>>

\* navigate() fulfils: navigateNext / navigatePrevious return true
\* (lines 120, 129).
NavigateResolve(k) ==
    /\ calls[k].pc = "navigate"
    /\ calls' = [calls EXCEPT ![k].pc = "done", ![k].ret = "true"]
    /\ UNCHANGED <<viewingAssets, viewingAssetCursor, viewingAsset,
                   showAssetViewer, navAssetId>>
    /\ UNCHANGED <<loaderVars, fetchVars, lifeVars>>

\* navigate() rejects: the call throws at its second await.
NavigateReject(k) ==
    /\ calls[k].pc = "navigate"
    /\ calls' = [calls EXCEPT ![k].pc = "failed", ![k].ret = "threw"]
    /\ UNCHANGED <<viewingAssets, viewingAssetCursor, viewingAsset,
                   showAssetViewer, navAssetId>>
    /\ UNCHANGED <<loaderVars, fetchVars, lifeVars>>

\* onClose, lines 305-308: the viewer is hidden and navigate is called with
\* assetId null; its promise is not awaited.
OnClose ==
    /\ showAssetViewer
    /\ Len(calls) < MaxCalls
    /\ showAssetViewer' = FALSE
    /\ navAssetId' = Null
    /\ calls' = Append(calls, Call("close", <<>>, Undefined, "done", "void", NoClick))
    /\ UNCHANGED <<viewingAssets, viewingAssetCursor, viewingAsset>>
    /\ UNCHANGED <<loaderVars, fetchVars, lifeVars>>

(***************************************************************************)
(* Lifecycle of one component instance: onMount after loadNaverStack,      *)
(* the destruction of the component, and the cleanup function.             *)
(***************************************************************************)
MarkerIds == {Markers[i].id : i \in DOMAIN Markers}
EventTypes == {"click", "mouseover", "mouseout"}

\* No listener registered anywhere.
NoListeners ==
    [idle |-> 0,
     marker |-> [id \in MarkerIds |-> [t \in EventTypes |-> 0]],
     cluster |-> [g \in ClusterMembers |-> [t \in EventTypes |-> 0]]]

\* The instance is inside the run of lines 143-284, from the settling of the
\* awaited request to the return: no other task can start before it ends.
InSync(m) ==
    \/ pc[m] \in {"fetched", "mapConstructed", "markersConstructed",
                  "clustererConstructed"}
    \/ /\ pc[m] = "awaitFetch"
       /\ abortController # 0
       /\ fetches[abortController].status # "inflight"

\* lines 138-143: await tick(), then loadMapMarkers() is called and awaited.
OnMountLoadMarkers(m, now) ==
    /\ microtasks = <<>>
    /\ pc[m] = "stackLoaded"
    /\ LoadMapMarkersCall(now)
    /\ pc' = [pc EXCEPT ![m] = "awaitFetch"]
    /\ UNCHANGED <<scripts, ready, promise, how, settled, microtasks>>
    /\ UNCHANGED <<viewerVars, lifeVars>>

\* A continuation that goes on to build the map whatever the request's outcome.
OnMountResumeAlways(m) ==
    /\ pc[m] = "awaitFetch"
    /\ abortController # 0
    /\ fetches[abortController].status # "inflight"
    /\ pc' = [pc EXCEPT ![m] = "fetched"]
    /\ UNCHANGED <<scripts, ready, promise, how, settled, microtasks>>
    /\ UNCHANGED <<fetchVars, viewerVars, lifeVars>>

\* onMount resumed after await loadMapMarkers() (line 143): with the marker
\* list it goes on; a rejection is caught by the catch on line 285.
OnMountResume(m) ==
    /\ pc[m] = "awaitFetch"
    /\ abortController # 0
    /\ \/ /\ fetches[abortController].status = "resolved"
          /\ pc' = [pc EXCEPT ![m] = "fetched"]
       \/ /\ fetches[abortController].status = "rejected"
          /\ pc' = [pc EXCEPT ![m] = "fetchFailed"]
    /\ UNCHANGED <<scripts, ready, promise, how, settled, microtasks>>
    /\ UNCHANGED <<fetchVars, viewerVars, lifeVars>>

\* new naver.maps.Map(mapEl, ...), lines 146-157.  Once the component is
\* destroyed mapEl is no longer in the document (or is unset): the
\* constructor may build the map all the same or throw, which the catch on
\* line 285 takes.
ConstructMap(m) ==
    /\ pc[m] = "fetched"
    /\ \/ /\ map' = "constructed"
          /\ pc' = [pc EXCEPT ![m] = "mapConstructed"]
       \/ /\ unmountedAt # "never"
          /\ pc' = [pc EXCEPT ![m] = "constructFailed"]
          /\ UNCHANGED map
    /\ UNCHANGED <<scripts, ready, promise, how, settled, microtasks>>
    /\ UNCHANGED <<unmountedAt, markers, mc, listeners, teardownLog, clicks>>
    /\ UNCHANGED <<fetchVars, viewerVars>>

\* Markers handed to the map as they are created.
ConstructMarkersOnMap(m) ==
    /\ pc[m] = "mapConstructed"
    /\ markers' = [i \in DOMAIN Markers |-> [id |-> Markers[i].id, map |-> "map"]]
    /\ listeners' = [listeners EXCEPT !.marker =
            [id \in MarkerIds |->
                [@[id] EXCEPT !["mouseover"] = @ + 1, !["mouseout"] = @ + 1]]]
    /\ pc' = [pc EXCEPT ![m] = "markersConstructed"]
    /\ UNCHANGED <<scripts, ready, promise, how, settled, microtasks>>
    /\ UNCHANGED <<unmountedAt, map, mc, teardownLog, clicks>>
    /\ UNCHANGED <<fetchVars, viewerVars>>

\* markerList.map(...), lines 161-196: a Marker per fetched record, created
\* with no map option, given its id (line 175) and its mouseover and
\* mouseout listeners (lines 178-192).
ConstructMarkers(m) ==
    /\ pc[m] = "mapConstructed"
    /\ markers' = [i \in DOMAIN Markers |-> [id |-> Markers[i].id, map |-> Null]]
    /\ listeners' = [listeners EXCEPT !.marker =
            [id \in MarkerIds |->
                [@[id] EXCEPT !["mouseover"] = @ + 1, !["mouseout"] = @ + 1]]]
    /\ pc' = [pc EXCEPT ![m] = "markersConstructed"]
    /\ UNCHANGED <<scripts, ready, promise, how, settled, microtasks>>
    /\ UNCHANGED <<unmountedAt, map, mc, teardownLog, clicks>>
    /\ UNCHANGED <<fetchVars, viewerVars>>

\* The markers as the clusterer leaves them for a grouping: a marker alone in
\* its group is put on the map, the members of a cluster are kept off it.
PlaceMarkers(ms, part) ==
    [i \in DOMAIN ms |->
        [ms[i] EXCEPT !.map =
            IF \E j \in DOMAIN part :
                  /\ Len(part[j]) < MinClusterSize
                  /\ part[j][1].id = ms[i].id
            THEN "map" ELSE Null]]

\* new MarkerClustering({map, markers, ...}), lines 223-264: the clusterer is
\* created on the map and groups the markers for the zoom the map has.
ConstructClusterer(m) ==
    /\ pc[m] = "markersConstructed"
    /\ mc' = "onMap"
    /\ \E part \in Partitions : markers' = PlaceMarkers(markers, part)
    /\ pc' = [pc EXCEPT ![m] = "clustererConstructed"]
    /\ UNCHANGED <<scripts, ready, promise, how, settled, microtasks>>
    /\ UNCHANGED <<unmountedAt, map, listeners, teardownLog, clicks>>
    /\ UNCHANGED <<fetchVars, viewerVars>>

\* lines 267-284: the idle listener of the map and the click listener of each
\* marker are registered and the async callback returns the cleanup function.
RegisterListeners(m) ==
    /\ pc[m] = "clustererConstructed"
    /\ listeners' = [listeners EXCEPT
            !.idle = @ + 1,
            !.marker = [id \in MarkerIds |-> [@[id] EXCEPT !["click"] = @ + 1]]]
    /\ pc' = [pc EXCEPT ![m] = "mounted"]
    /\ UNCHANGED <<scripts, ready, promise, how, settled, microtasks>>
    /\ UNCHANGED <<unmountedAt, map, markers, mc, teardownLog, clicks>>
    /\ UNCHANGED <<fetchVars, viewerVars>>

\* stylingFunction, lines 232-263, called by the clusterer on the cluster
\* marker of group g: each call registers a click, a mouseover and a mouseout
\* listener on the marker (lines 242, 246, 257).
StylingFunction(g) ==
    /\ mc = "onMap"
    /\ listeners.cluster[g]["click"] < MaxStylings
    /\ listeners' = [listeners EXCEPT !.cluster[g] = [t \in EventTypes |-> @[t] + 1]]
    /\ UNCHANGED <<unmountedAt, map, markers, mc, teardownLog, clicks>>
    /\ UNCHANGED <<loaderVars, fetchVars, viewerVars>>

\* A click on the cluster marker of group g: naver.maps.Event runs every
\* click listener registered on it, each of them lines 242-245.
DispatchClusterClick(g) ==
    /\ microtasks = <<>>
    /\ mc = "onMap"
    /\ \A m \in Mounts : ~InSync(m)
    /\ listeners.cluster[g]["click"] >= 1
    /\ Len(calls) + listeners.cluster[g]["click"] <= MaxCalls
    /\ LET ids == ClusterIds(g)
           first == Call("open", ids, ids[1], "setAssetId", "pending",
                         [kind |-> "cluster", members |-> g])
           later == [first EXCEPT !.alone = FALSE,
                                  !.before = [@ EXCEPT !.assets = ids,
                                                       !.cursor = 0]]
       IN  calls' = calls \o [k \in 1..listeners.cluster[g]["click"] |->
                                 IF k = 1 THEN first ELSE later]
    /\ viewingAssets' = ClusterIds(g)
    /\ viewingAssetCursor' = 0
    /\ clicks' = clicks + 1
    /\ UNCHANGED <<viewingAsset, showAssetViewer, navAssetId>>
    /\ UNCHANGED <<unmountedAt, map, markers, mc, listeners, teardownLog>>
    /\ UNCHANGED <<loaderVars, fetchVars>>

\* The component is destroyed.  Svelte runs what the onMount callback
\* returned if that is a function; the callback is async (line 134) and
\* returned a promise, so nothing of the page runs.
Unmount(m) ==
    /\ microtasks = <<>>
    /\ pc[m] # "unmounted"
    /\ ~InSync(m)
    /\ unmountedAt = "never"
    /\ unmountedAt' = pc[m]
    /\ UNCHANGED <<map, markers, mc, listeners, teardownLog, clicks>>
    /\ UNCHANGED <<loaderVars, fetchVars, viewerVars>>

\* A cleanup function handed out before the startup has built anything.
TeardownBeforeStartup(m) ==
    /\ microtasks = <<>>
    /\ pc[m] # "unmounted"
    /\ ~InSync(m)
    /\ Len(teardownLog) < MaxTeardowns
    /\ listeners' = [listeners EXCEPT !.idle = 0]
    /\ mc' = IF mc = "none" THEN "none" ELSE "offMap"
    /\ markers' = [i \in DOMAIN markers |-> [markers[i] EXCEPT !.map = Null]]
    /\ fetches' = AbortPrevious(fetches, abortController)
    /\ teardownLog' = Append(teardownLog,
            [pc |-> pc[m], map |-> map, markers |-> markers', mc |-> mc',
             listeners |-> listeners', fetches |-> fetches'])
    /\ UNCHANGED <<unmountedAt, map, clicks>>
    /\ UNCHANGED <<mapSettings, abortController, applied>>
    /\ UNCHANGED <<loaderVars, viewerVars>>

\* The cleanup function, lines 280-284.  It exists once the startup has run
\* to its end: removeListener(idleListener), mc.setMap(null) (the clusterer
\* takes its markers off the map), abortController.abort().
Teardown(m) ==
    /\ microtasks = <<>>
    /\ pc[m] = "mounted"
    /\ Len(teardownLog) < MaxTeardowns
    /\ listeners' = [listeners EXCEPT !.idle = 0]
    /\ mc' = "offMap"
    /\ markers' = [i \in DOMAIN markers |-> [markers[i] EXCEPT !.map = Null]]
    /\ fetches' = AbortPrevious(fetches, abortController)
    /\ teardownLog' = Append(teardownLog,
            [pc |-> pc[m], map |-> map, markers |-> markers', mc |-> mc',
             listeners |-> listeners', fetches |-> fetches'])
    /\ UNCHANGED <<unmountedAt, map, clicks>>
    /\ UNCHANGED <<mapSettings, abortController, applied>>
    /\ UNCHANGED <<loaderVars, viewerVars>>

(***************************************************************************)
(* The specifications.  Each starts the part it is about in the state the  *)
(* page constructs and holds the other parts in theirs.                    *)
(***************************************************************************)
LoaderIdle ==
    /\ scripts = <<>>
    /\ ready = [s \in Srcs |-> FALSE]
    /\ promise = [m \in Mounts |-> [s \in Srcs |-> "none"]]
    /\ how = [m \in Mounts |-> [s \in Srcs |-> "none"]]
    /\ settled = [m \in Mounts |-> [s \in Srcs |-> 0]]
    /\ pc = [m \in Mounts |-> "unmounted"]
    /\ microtasks = <<>>

FetchIdle ==
    /\ abortController = 0
    /\ fetches = <<>>
    /\ applied = [fetch |-> 0, issued |-> 0]
    /\ mapSettings = [relativeDate |-> "", dateAfter |-> "", dateBefore |-> "",
                      includeArchived |-> FALSE, onlyFavorites |-> FALSE,
                      withPartners |-> FALSE, withSharedAlbums |-> FALSE]

ViewerIdle ==
    /\ viewingAssets = <<>>
    /\ viewingAssetCursor = 0
    /\ viewingAsset = Undefined
    /\ showAssetViewer = FALSE
    /\ navAssetId = Null
    /\ calls = <<>>

LifeIdle ==
    /\ unmountedAt = "never"
    /\ map = "none"
    /\ markers = <<>>
    /\ mc = "none"
    /\ listeners = NoListeners
    /\ teardownLog = <<>>
    /\ clicks = 0

LoaderInit ==
    /\ LoaderIdle
    /\ FetchIdle
    /\ ViewerIdle
    /\ LifeIdle

LoaderNext ==
    \/ \E m \in Mounts : Mount(m)
    \/ RunMicrotask
    \/ \E i \in DOMAIN scripts : ScriptLoad(i)
    \/ \E i \in DOMAIN scripts : ScriptError(i)

LoaderSpec == LoaderInit /\ [][LoaderNext]_vars

FetchInit ==
    /\ abortController = 0
    /\ fetches = <<>>
    /\ applied = [fetch |-> 0, issued |-> 0]
    /\ mapSettings \in [relativeDate : RelativeDates, dateAfter : DatesAfter,
                        dateBefore : DatesBefore,
                        includeArchived : BOOLEAN, onlyFavorites : BOOLEAN,
                        withPartners : BOOLEAN, withSharedAlbums : BOOLEAN]
    /\ LoaderIdle
    /\ ViewerIdle
    /\ LifeIdle

FetchNext ==
    \/ \E now \in Nows : LoadMapMarkers(now)
    \/ \E i \in DOMAIN fetches : FetchResolve(i)
    \/ \E i \in DOMAIN fetches : FetchFail(i)

FetchSpec == FetchInit /\ [][FetchNext]_vars

ViewerInit ==
    /\ ViewerIdle
    /\ LoaderIdle
    /\ FetchIdle
    /\ LifeIdle

ViewerNext ==
    \/ \E members \in ClusterMembers : ClickCluster(members)
    \/ \E m \in SingleMarkers : ClickMarker(m)
    \/ NavigateNext
    \/ NavigatePrevious
    \/ OnClose
    \/ \E k \in DOMAIN calls : SetAssetIdResolve(k)
    \/ \E k \in DOMAIN calls : SetAssetIdReject(k)
    \/ \E k \in DOMAIN calls : NavigateResolve(k)
    \/ \E k \in DOMAIN calls : NavigateReject(k)

ViewerSpec == ViewerInit /\ [][ViewerNext]_vars

\* One component instance from its mount on.
LifecycleInit ==
    /\ LoaderIdle
    /\ FetchIdle
    /\ ViewerIdle
    /\ LifeIdle

LifecycleNext ==
    \/ \E m \in Mounts : (\A n \in Mounts : pc[n] = "unmounted") /\ Mount(m)
    \/ RunMicrotask
    \/ \E i \in DOMAIN scripts : ScriptLoad(i)
    \/ \E i \in DOMAIN scripts : ScriptError(i)
    \/ \E m \in Mounts, now \in Nows : OnMountLoadMarkers(m, now)
    \/ \E i \in DOMAIN fetches : FetchResolve(i)
    \/ \E i \in DOMAIN fetches : FetchFail(i)
    \/ \E m \in Mounts : OnMountResume(m)
    \/ \E m \in Mounts : ConstructMap(m)
    \/ \E m \in Mounts : ConstructMarkers(m)
    \/ \E m \in Mounts : ConstructClusterer(m)
    \/ \E m \in Mounts : RegisterListeners(m)
    \/ \E g \in ClusterMembers : StylingFunction(g)
    \/ \E g \in ClusterMembers : DispatchClusterClick(g)
    \/ \E m \in Mounts : Unmount(m)
    \/ \E m \in Mounts : Teardown(m)

LifecycleSpec == LifecycleInit /\ [][LifecycleNext]_vars

(***************************************************************************)
(* Claims about the script bootstrap (checked under LoaderSpec)            *)
(***************************************************************************)
ElementsOf(src) == {i \in DOMAIN scripts : scripts[i].src = src}

C2_EveryCallFailsOnLoadError ==
    \A s \in Srcs : \A m \in Mounts :
        (/\ promise[m][s] # "none"
         /\ \E i \in ElementsOf(s) : scripts[i].status = "error")
        => promise[m][s] = "rejected"

\* C3: a mount's load of the clustering plugin is started only once that
\* mount's promise for the base library has resolved (so never when it was
\* rejected), and no plugin element is in the document before the base
\* library has run.
C3_StackInDeclaredOrder ==
    /\ \A m \in Mounts :
          promise[m][ClusterUrl] # "none" => promise[m][MapsUrl] = "resolved"
    /\ \A m \in Mounts :
          promise[m][MapsUrl] \in {"pending", "rejected"} =>
              how[m][ClusterUrl] = "none"
    /\ ElementsOf(ClusterUrl) # {} => ready[MapsUrl]

\* A mount inserted the base library, saw it load, and then inserted the
\* plugin; another mount's base promise is still where the first one's was.
C3_Witness ==
    \E m \in Mounts :
        /\ how[m][MapsUrl] = "inserted"
        /\ promise[m][MapsUrl] = "resolved"
        /\ how[m][ClusterUrl] = "inserted"
        /\ pc[m] = "awaitCluster"

(***************************************************************************)
(* Claims about the marker fetch (checked under FetchSpec)                 *)
(***************************************************************************)
InFlight == {i \in DOMAIN fetches : fetches[i].status = "inflight"}

\* C4: at most one marker fetch is in flight, and it is the one the current
\* controller belongs to; every superseded fetch has had its signal aborted
\* and, if it had not finished by then, was rejected with an AbortError; and
\* a result is taken only from the fetch that is the latest one issued.
C4_SupersededFetchCancelled ==
    /\ Cardinality(InFlight) <= 1
    /\ InFlight \subseteq {abortController}
    /\ \A i \in DOMAIN fetches :
          i < Len(fetches) =>
             /\ fetches[i].signalAborted
             /\ fetches[i].status # "inflight"
    /\ \A i \in DOMAIN fetches :
          fetches[i].error = "AbortError" =>
              fetches[i].signalAborted /\ applied.fetch # i
    /\ applied.fetch = applied.issued

\* Fetch B was issued while fetch A was in flight: A ended with an AbortError
\* and B's result is the one taken.
C4_Witness ==
    /\ Len(fetches) >= 2
    /\ fetches[1].error = "AbortError"
    /\ fetches[2].status = "resolved"
    /\ applied.fetch = 2

(***************************************************************************)
(* Claims about the asset viewer (checked under ViewerSpec)                *)
(*                                                                         *)
(* A call is "alone" when every earlier call had returned or thrown before *)
(* it started; the last call of calls, when alone, ran with no other call  *)
(* in flight from its start to its return.                                 *)
(***************************************************************************)
LastCall == calls[Len(calls)]

\* The last call made is op, ran alone and has returned.
LastReturned(ops) ==
    /\ calls # <<>>
    /\ LastCall.op \in ops
    /\ LastCall.alone
    /\ LastCall.pc = "done"

\* C5: once an open(ids) that ran alone has returned, the stored sequence is
\* ids, the cursor is 0, the viewer shows ids[0] and the last navigate() call
\* named ids[0].
C5_OpenDisplaysAndNavigates ==
    LastReturned({"open"}) =>
        /\ viewingAssets = LastCall.ids
        /\ viewingAssetCursor = 0
        /\ showAssetViewer
        /\ viewingAsset = LastCall.ids[1]
        /\ navAssetId = LastCall.ids[1]

\* What open does do: everything of C5 but the navigate() call.
OpenDisplaysFirst ==
    LastReturned({"open"}) =>
        /\ viewingAssets = LastCall.ids
        /\ viewingAssetCursor = 0
        /\ showAssetViewer
        /\ viewingAsset = LastCall.ids[1]
        /\ navAssetId = LastCall.before.nav

\* C6: once a next() or previous() that ran alone has returned: if it started
\* at its boundary (next at cursor = len-1, previous at cursor = 0) it returned
\* false and the sequence, the cursor, the displayed asset and the navigation
\* state are what they were; otherwise it returned true, the cursor moved by
\* exactly one (up for next, down for previous), the sequence is unchanged,
\* and the displayed asset and the last navigate() call are the asset at the
\* cursor.
C6_NextPreviousContract ==
    LastReturned({"next", "previous"}) =>
        LET c == LastCall
            step == IF c.op = "next" THEN 1 ELSE -1
            atBoundary == IF c.op = "next"
                          THEN c.before.cursor = Len(c.before.assets) - 1
                          ELSE c.before.cursor = 0
        IN  IF atBoundary
            THEN c.ret = "false" /\ Snapshot = c.before
            ELSE /\ c.ret = "true"
                 /\ viewingAssets = c.before.assets
                 /\ viewingAssetCursor = c.before.cursor + step
                 /\ viewingAssetCursor + 1 \in DOMAIN viewingAssets
                 /\ showAssetViewer
                 /\ viewingAsset = viewingAssets[viewingAssetCursor + 1]
                 /\ navAssetId = viewingAssets[viewingAssetCursor + 1]

\* A next() away from the boundary has returned true, after a previous() at
\* cursor 0 had returned false.
C6_Witness ==
    /\ LastReturned({"next"})
    /\ LastCall.ret = "true"
    /\ LastCall.before.cursor < Len(LastCall.before.assets) - 1
    /\ \E j \in DOMAIN calls :
          /\ calls[j].op = "previous" /\ calls[j].alone
          /\ calls[j].before.cursor = 0 /\ calls[j].ret = "false"

\* C7: in every state, under every interleaving of the calls and of their
\* display steps, a non-empty viewingAssets has 0 <= cursor <= len-1.
C7_CursorInRange ==
    viewingAssets # <<>> =>
        /\ 0 <= viewingAssetCursor
        /\ viewingAssetCursor <= Len(viewingAssets) - 1

\* The cursor stands on the last of several assets, a next() there was
\* refused, and an open had replaced an earlier session.
C7_Witness ==
    /\ Len(viewingAssets) >= 2
    /\ viewingAssetCursor = Len(viewingAssets) - 1
    /\ \E j \in DOMAIN calls : calls[j].op = "next" /\ calls[j].ret = "false"
    /\ \E j \in DOMAIN calls :
          calls[j].op = "open" /\ calls[j].before.assets # <<>>

\* Calls j .. j+3 are open(["a","b","c"]) and three next(), each next() made
\* once the calls before it had returned or thrown.
OpenThenThreeNext(j) ==
    /\ j + 3 \in DOMAIN calls
    /\ calls[j].op = "open"
    /\ calls[j].ids = <<"a", "b", "c">>
    /\ \A i \in (j + 1)..(j + 3) : calls[i].op = "next" /\ calls[i].alone

\* The cursor after each of the four calls j .. j+3 (the last one's from the
\* state, once no later call has been made).
CursorsAfter(j) ==
    <<calls[j + 1].before.cursor, calls[j + 2].before.cursor,
      calls[j + 3].before.cursor, viewingAssetCursor>>

\* C8, as amended: open(["a","b","c"]) followed by three next() calls yields
\* the cursor sequence 0,1,2,2; the third next() returns false and changes no
\* state.
C8_CursorSequence0122 ==
    \A j \in DOMAIN calls :
        OpenThenThreeNext(j) =>
            /\ calls[j + 1].before.cursor = 0
            /\ calls[j + 2].before.cursor = 1
            /\ calls[j + 3].before.cursor = 2
            /\ calls[j + 3].pc = "done"
            /\ calls[j + 3].ret = "false"
            /\ j + 3 = Len(calls) =>
                  CursorsAfter(j) = <<0, 1, 2, 2>> /\ Snapshot = calls[j + 3].before

\* C8 as the spec states it: the cursor sequence is 0,1,1,1.
C8_CursorSequence0111 ==
    \A j \in DOMAIN calls :
        (OpenThenThreeNext(j) /\ j + 3 = Len(calls)) =>
            CursorsAfter(j) = <<0, 1, 1, 1>>

\* open(["a","b","c"]) and three next() have been made, all returned.
C8_Witness ==
    /\ OpenThenThreeNext(1)
    /\ Len(calls) = 4
    /\ \A i \in 1..4 : calls[i].pc = "done"
    /\ calls[2].ret = "true" /\ calls[3].ret = "true"

\* C9: from a close on, until an open is called, the navigation state is "no
\* asset selected" (the last navigate() call passed null), whatever was in
\* flight when close was called.
C9_ClosedStaysClosed ==
    \A k \in DOMAIN calls :
        (/\ calls[k].op = "close"
         /\ \A j \in DOMAIN calls : j > k => calls[j].op # "open")
        => navAssetId = Null

\* C10: every open made by a cluster click was passed the ids of the cluster's
\* members, all of them and in member order; every open made by a marker click
\* was passed the one-element list of that marker's id; and until the next
\* open the stored sequence is that list.
C10_ClickPassesMemberIds ==
    \A k \in DOMAIN calls :
        calls[k].op = "open" =>
            LET members == calls[k].click.members
            IN  /\ calls[k].click.kind \in {"cluster", "marker"}
                /\ Len(calls[k].ids) = Len(members)
                /\ \A i \in DOMAIN members : calls[k].ids[i] = members[i].id
                /\ calls[k].click.kind = "marker" => Len(calls[k].ids) = 1
                /\ calls[k].click.kind = "cluster" =>
                      Len(calls[k].ids) >= MinClusterSize
                /\ (\A j \in DOMAIN calls : j > k => calls[j].op # "open")
                      => viewingAssets = calls[k].ids

\* A click on the cluster of m1, m2, m3 stored their three ids in order, after
\* a click on a single marker had opened its one id.
C10_Witness ==
    /\ calls # <<>>
    /\ LastCall.op = "open"
    /\ LastCall.click = [kind |-> "cluster",
                         members |-> <<MarkerA, MarkerB, MarkerC>>]
    /\ viewingAssets = <<"a", "b", "c">>
    /\ \E j \in DOMAIN calls :
          /\ calls[j].click.kind = "marker"
          /\ calls[j].ids = <<calls[j].click.members[1].id>>

(***************************************************************************)
(* Claims about the date filter (checked under FetchSpec)                  *)
(***************************************************************************)
\* C11: when the stored relative duration is a valid ISO duration the filter
\* has fileCreatedAfter = now - duration and no fileCreatedBefore, whatever
\* dateAfter and dateBefore hold; when it is stored but is no valid duration
\* both dates are unset; the absolute pair is used only when no relative
\* duration is stored.
C11_RelativeDurationWins ==
    \A i \in DOMAIN fetches :
        LET st == fetches[i].settings
            f == fetches[i].filter
        IN  /\ st.relativeDate = "P1D" =>
                  /\ f.fileCreatedAfter = ToISO(fetches[i].now - 1)
                  /\ f.fileCreatedBefore = Undefined
            /\ st.relativeDate = "junk" =>
                  /\ f.fileCreatedAfter = Undefined
                  /\ f.fileCreatedBefore = Undefined
            /\ st.relativeDate # "" => mapSettings = st
            /\ (\/ f.fileCreatedBefore # Undefined
                \/ f.fileCreatedAfter = ToISO(NewDate("2024-01-01"))) =>
                  st.relativeDate = ""

\* C11 as stated: every stored relative duration, valid or not, gives
\* fileCreatedAfter = now - duration and no fileCreatedBefore.
C11_EveryRelativeDateGivesAfter ==
    \A i \in DOMAIN fetches :
        LET st == fetches[i].settings
            f == fetches[i].filter
        IN  st.relativeDate # "" =>
              /\ f.fileCreatedAfter \in {ToISO(fetches[i].now - d) : d \in 0..1}
              /\ f.fileCreatedBefore = Undefined

\* A request derived from a valid relative duration while both absolute
\* fields hold parsable dates.
C11_Witness ==
    \E i \in DOMAIN fetches :
        /\ fetches[i].settings.relativeDate = "P1D"
        /\ fetches[i].settings.dateAfter = "2024-01-01"
        /\ fetches[i].settings.dateBefore = "2024-01-03"
        /\ fetches[i].now = 5
        /\ fetches[i].filter.fileCreatedAfter = "2024-01-04T00:00:00.000Z"

\* C12: with no relative duration stored, a stored absolute date that does
\* not parse makes the load clear both stored fields and issue the request
\* with neither fileCreatedAfter nor fileCreatedBefore; the call raises
\* nothing: the request is issued with the other preferences as usual.
C12_UnparsableDateClearsBoth ==
    \A i \in DOMAIN fetches :
        LET st == fetches[i].settings
            f == fetches[i].filter
        IN  (/\ st.relativeDate = ""
             /\ "not-a-date" \in {st.dateAfter, st.dateBefore}) =>
              /\ f.fileCreatedAfter = Undefined
              /\ f.fileCreatedBefore = Undefined
              /\ mapSettings.dateAfter = ""
              /\ mapSettings.dateBefore = ""
              /\ f.isArchived = OrUndefined(st.includeArchived)

\* A load that found one unparsable and one parsable date.
C12_Witness ==
    \E i \in DOMAIN fetches :
        /\ fetches[i].settings.relativeDate = ""
        /\ fetches[i].settings.dateAfter = "not-a-date"
        /\ fetches[i].settings.dateBefore = "2024-01-03"
        /\ fetches[i].filter.fileCreatedBefore = Undefined
        /\ mapSettings.dateBefore = ""
        /\ fetches[i].status = "resolved"

(***************************************************************************)
(* Claims about concurrent and failing calls (checked under ViewerSpec)    *)
(***************************************************************************)
\* C18: under every interleaving of next(), previous() and open() calls whose
\* display steps fulfil in any order, once no call is in flight the displayed
\* asset is assetIds[cursor], and so is the id last passed to navigate() once
\* a next() or previous() has moved the cursor.
C18_QuiescentAgreement ==
    (/\ calls # <<>>
     /\ \A j \in DOMAIN calls : calls[j].pc = "done" /\ calls[j].op # "close") =>
        /\ showAssetViewer
        /\ viewingAsset = viewingAssets[viewingAssetCursor + 1]
        /\ (\E j \in DOMAIN calls :
               calls[j].op \in {"next", "previous"} /\ calls[j].ret = "true") =>
              navAssetId = viewingAssets[viewingAssetCursor + 1]

\* C20: when a next() or previous() that ran alone has failed at its display
\* step (setAssetId or navigate rejected), the cursor is what it was before
\* the call.
C20_FailedStepKeepsCursor ==
    (/\ calls # <<>>
     /\ LastCall.op \in {"next", "previous"}
     /\ LastCall.alone
     /\ LastCall.pc = "failed") =>
        viewingAssetCursor = LastCall.before.cursor

(***************************************************************************)
(* Claims about the lifecycle (checked under LifecycleSpec)                *)
(***************************************************************************)
\* C13: once the cleanup function has run, no listener registered during
\* startup is still registered (map idle, marker click/mouseover/mouseout,
\* cluster click/mouseover/mouseout), the clusterer is off the map and no
\* request is in flight.
C13_TeardownReleasesEverything ==
    teardownLog # <<>> =>
        /\ listeners = NoListeners
        /\ mc = "offMap"
        /\ \A i \in DOMAIN fetches : fetches[i].status # "inflight"

\* C14: when the component was destroyed while its marker request was in
\* flight, the request is cancelled and no map, marker, clusterer or listener
\* exists afterwards.
C14_UnmountCancelsFetch ==
    unmountedAt = "awaitFetch" =>
        /\ fetches[abortController].signalAborted
        /\ fetches[abortController].status = "rejected"
        /\ map = "none"
        /\ markers = <<>>
        /\ mc = "none"
        /\ listeners = NoListeners

C16_StartupOrder ==
    \A m \in Mounts :
        /\ (pc[m] # "unmounted" /\ (markers # <<>> \/ mc # "none")) =>
              /\ promise[m][MapsUrl] = "resolved"
              /\ promise[m][ClusterUrl] = "resolved"
              /\ abortController # 0
              /\ fetches[abortController].status = "resolved"
        /\ markers # <<>> => map = "constructed"
        /\ mc # "none" => markers # <<>>
        /\ (listeners.idle > 0 \/ \E id \in MarkerIds : listeners.marker[id]["click"] > 0)
              => mc # "none"
        /\ pc[m] = "markersConstructed" =>
              \A i \in DOMAIN markers : markers[i].map = Null
        /\ (\E i \in DOMAIN markers : markers[i].map = "map") => mc = "onMap"

\* The startup has run to its end: one marker stands on the map, put there
\* by the clusterer, and the others are in a cluster.
C16_Witness ==
    /\ \E m \in Mounts : pc[m] = "mounted"
    /\ mc = "onMap"
    /\ \E i \in DOMAIN markers : markers[i].map = "map"
    /\ \E i \in DOMAIN markers : markers[i].map = Null
    /\ listeners.idle = 1

\* C17: a rejected script promise and a rejected marker request end onMount
\* in its catch and nowhere else: the instance never goes on to build
\* anything, and in the caught states no map, marker, clusterer or listener
\* exists.
C17_ErrorsCaughtAtBoundary ==
    \A m \in Mounts :
        /\ pc[m] \in {"stackFailed", "fetchFailed", "constructFailed"} =>
              /\ map = "none"
              /\ markers = <<>>
              /\ mc = "none"
              /\ listeners = NoListeners
        /\ (\E s \in Srcs : promise[m][s] = "rejected") =>
              /\ pc[m] \in {"awaitMaps", "awaitCluster", "stackFailed"}
              /\ microtasks = <<>> => pc[m] = "stackFailed"
        /\ (/\ pc[m] # "unmounted"
            /\ abortController # 0
            /\ fetches[abortController].status = "rejected") =>
              pc[m] \in {"awaitFetch", "fetchFailed"}

\* The marker request failed on the network and onMount caught it.
C17_Witness ==
    /\ \E m \in Mounts : pc[m] = "fetchFailed"
    /\ abortController # 0
    /\ fetches[abortController].error = "NetworkError"
    /\ unmountedAt = "never"

\* C19: a cluster marker has at most one click, one mouseover and one
\* mouseout listener however often stylingFunction ran on it, and every
\* click on a cluster marker has called onViewAssets once.
C19_OneListenerPerClusterEvent ==
    /\ \A g \in ClusterMembers : \A t \in EventTypes : listeners.cluster[g][t] <= 1
    /\ Len(calls) = clicks

====
